---- MODULE Spec2Model ----
(***************************************************************************)
(* State-machine model of the diet log application:                        *)
(*   src/App.tsx                      the Log Store and its handlers       *)
(*   src/components/MacroProgress.tsx the Macro Aggregator / Goal Evaluator*)
(*   src/services/geminiService.ts    the AI extraction contract           *)
(*   src/types.ts                     the data model and its defaults      *)
(*   src/unnamed/part_000             the DecisionMaker component          *)
(*                                                                         *)
(* JavaScript numbers are modelled as exact rationals extended with NaN    *)
(* and the two infinities; the rounding error of IEEE-754 doubles is not   *)
(* modelled (laws are read "up to floating-point tolerance"), and -0 is    *)
(* identified with 0.                                                      *)
(***************************************************************************)
EXTENDS Integers, Sequences, FiniteSets, TLC

\* ------------------------------------------------------------------------
\* Numbers
\* ------------------------------------------------------------------------

Abs(x) == IF x < 0 THEN -x ELSE x

RECURSIVE GCD(_, _)
GCD(a, b) == IF b = 0 THEN a ELSE GCD(b, a % b)

\* the finite number n/d in lowest terms, d # 0
Rat(n, d) ==
  LET g == GCD(Abs(n), Abs(d))
      s == IF d < 0 THEN -1 ELSE 1
  IN  [k |-> "fin", n |-> (s * n) \div g, d |-> Abs(d) \div g]

Int2Num(i) == [k |-> "fin", n |-> i, d |-> 1]

NaN == [k |-> "nan", n |-> 0, d |-> 1]

PosInf == [k |-> "inf", n |-> 1, d |-> 1]

NegInf == [k |-> "inf", n |-> -1, d |-> 1]

Zero == Int2Num(0)

IsNaN(x) == x.k = "nan"

IsFin(x) == x.k = "fin"

Sign(x) == IF x.n > 0 THEN 1 ELSE IF x.n < 0 THEN -1 ELSE 0

InfOf(s) == IF s > 0 THEN PosInf ELSE NegInf

\* a * b
Mul(a, b) ==
  IF IsNaN(a) \/ IsNaN(b) THEN NaN
  ELSE IF IsFin(a) /\ IsFin(b) THEN Rat(a.n * b.n, a.d * b.d)
  ELSE IF Sign(a) = 0 \/ Sign(b) = 0 THEN NaN
  ELSE InfOf(Sign(a) * Sign(b))

\* a / b
Div(a, b) ==
  IF IsNaN(a) \/ IsNaN(b) THEN NaN
  ELSE IF IsFin(a) /\ IsFin(b)
       THEN IF b.n # 0 THEN Rat(a.n * b.d, a.d * b.n)
            ELSE IF a.n = 0 THEN NaN ELSE InfOf(Sign(a))
  ELSE IF IsFin(a) THEN Zero
  ELSE IF IsFin(b) THEN InfOf(Sign(a) * (IF Sign(b) < 0 THEN -1 ELSE 1))
  ELSE NaN

\* a + b
Add(a, b) ==
  IF IsNaN(a) \/ IsNaN(b) THEN NaN
  ELSE IF IsFin(a) /\ IsFin(b) THEN Rat(a.n * b.d + b.n * a.d, a.d * b.d)
  ELSE IF IsFin(a) THEN b
  ELSE IF IsFin(b) THEN a
  ELSE IF Sign(a) = Sign(b) THEN a ELSE NaN

\* a > b (false when either side is NaN)
Gt(a, b) ==
  IF IsNaN(a) \/ IsNaN(b) THEN FALSE
  ELSE IF IsFin(a) /\ IsFin(b) THEN a.n * b.d > b.n * a.d
  ELSE IF IsFin(a) THEN Sign(b) < 0
  ELSE IF IsFin(b) THEN Sign(a) > 0
  ELSE Sign(a) > Sign(b)

\* a === b (false when either side is NaN)
NumEq(a, b) == ~IsNaN(a) /\ ~IsNaN(b) /\ a = b

\* a >= b
Ge(a, b) == Gt(a, b) \/ NumEq(a, b)

\* Math.max(a, b), Math.min(a, b): NaN when either argument is NaN
MathMax(a, b) == IF IsNaN(a) \/ IsNaN(b) THEN NaN ELSE IF Gt(b, a) THEN b ELSE a

MathMin(a, b) == IF IsNaN(a) \/ IsNaN(b) THEN NaN ELSE IF Gt(a, b) THEN b ELSE a

\* floor of the integer quotient p / q, q > 0
FloorDiv(p, q) == IF p >= 0 THEN p \div q ELSE -((-p + q - 1) \div q)

\* Math.round(x): floor(x + 1/2); NaN and the infinities are returned as is
MathRound(x) ==
  IF ~IsFin(x) THEN x ELSE Int2Num(FloorDiv(2 * x.n + x.d, 2 * x.d))

\* ------------------------------------------------------------------------
\* Bounds
\* ------------------------------------------------------------------------

\* calendar days 1..Today (getTodayString() is the last selectable day)
Today == 2

\* number of extraction requests that may be started
MaxRequests == 1

\* number of item / metric edits that may be made
MaxEdits == 1

\* ------------------------------------------------------------------------
\* Data model (src/types.ts)
\* ------------------------------------------------------------------------

Dates == 1..Today

MEAL_TYPES == <<"breakfast", "lunch", "dinner", "snack">>

\* `${key}-${date}`
MealId(key, date) == <<key, date>>

Ingredient(id, name, weight, calories, protein, carbs, fat, oil) ==
  [id |-> id, name |-> name, weight |-> weight, calories |-> calories,
   protein |-> protein, carbs |-> carbs, fat |-> fat,
   addedOilCalories |-> oil]

FIXED_BREAKFAST_ITEMS ==
  << Ingredient("fixed-egg", "Boiled Egg", Int2Num(50), Int2Num(70),
                Int2Num(6), Rat(6, 10), Int2Num(5), Zero),
     Ingredient("fixed-milk", "Milk (Whole)", Int2Num(250), Int2Num(150),
                Int2Num(8), Int2Num(12), Int2Num(8), Zero) >>

DEFAULT_GOALS ==
  [calories |-> Int2Num(1350), protein |-> Int2Num(75),
   carbsPercentage |-> Rat(55, 100), fatPercentage |-> Rat(25, 100)]

\* a meal; the note is the list of the analyses joined by "; " (the empty
\* list is the absent note), the creation timestamp is not modelled
Meal(id, name, items, note, skipped) ==
  [id |-> id, name |-> name, items |-> items, cookingMethodNote |-> note,
   isSkipped |-> skipped]

\* null, where a number may stand
Null == [k |-> "null", n |-> 0, d |-> 1]

NoMetrics == [weight |-> Null, waist |-> Null, thigh |-> Null, calf |-> Null]

MetricKeys == {"weight", "waist", "thigh", "calf"}

MacroFields == {"calories", "protein", "carbs", "fat", "addedOilCalories"}

NumericFields == MacroFields \cup {"weight"}

\* the default log of a date
DefaultLog(date) ==
  [date |-> date,
   meals |-> << Meal(MealId("breakfast", date), "breakfast",
                     FIXED_BREAKFAST_ITEMS, <<"boiled">>, FALSE),
                Meal(MealId("lunch", date), "lunch", <<>>, <<>>, FALSE),
                Meal(MealId("dinner", date), "dinner", <<>>, <<>>, FALSE),
                Meal(MealId("snack", date), "snack", <<>>, <<>>, FALSE) >>,
   metrics |-> NoMetrics]

\* parseFloat of the texts an input element can hold
ParseFloat(text) ==
  CASE text = "0" -> Zero
    [] text = "50" -> Int2Num(50)
    [] text = "100" -> Int2Num(100)
    [] text = "-5" -> Int2Num(-5)
    [] OTHER -> NaN

\* ------------------------------------------------------------------------
\* The AI collaborator and parseFoodEntry (src/services/geminiService.ts)
\* ------------------------------------------------------------------------

NoKey == "no API key"

NetworkError == "network error"

SyntaxError == "SyntaxError"

DefaultAnalysis == "no extra cooking note"

RawRice ==
  Ingredient("", "rice", Int2Num(100), Int2Num(130), Int2Num(3),
             Int2Num(28), Rat(3, 10), Zero)

RawOil ==
  Ingredient("", "oil", Zero, Int2Num(45), Zero, Zero, Int2Num(5),
             Int2Num(45))

NoOutcome ==
  [kind |-> "none", hasItems |-> FALSE, items |-> <<>>, analysis |-> ""]

\* what getAIClient / generateContent can do for one extraction request:
\* throw, or return a response text
AIOutcomes ==
  { [kind |-> "nokey", hasItems |-> FALSE, items |-> <<>>, analysis |-> ""],
    [kind |-> "network", hasItems |-> FALSE, items |-> <<>>, analysis |-> ""],
    [kind |-> "badjson", hasItems |-> FALSE, items |-> <<>>, analysis |-> ""],
    [kind |-> "empty", hasItems |-> FALSE, items |-> <<>>, analysis |-> ""],
    [kind |-> "json", hasItems |-> FALSE, items |-> <<>>, analysis |-> ""],
    [kind |-> "json", hasItems |-> TRUE, items |-> <<RawRice>>,
     analysis |-> "stir-fried"] }

\* the values Math.random().toString(36).substr(2, 9) is drawn from
RandomIds == {"r1", "r2"}

\* parseFoodEntry throws on this outcome
ParseThrows(out) == out.kind \in {"nokey", "network", "badjson"}

\* error.message || "..." of the Error parseFoodEntry throws
ParseErrorMessage(out) ==
  CASE out.kind = "nokey" -> NoKey
    [] out.kind = "network" -> NetworkError
    [] OTHER -> SyntaxError

\* the value parseFoodEntry resolves to; ids[i] is the id drawn for item i
ParseFoodEntry(out, ids) ==
  LET result == IF out.kind = "empty"
                THEN [hasItems |-> FALSE, items |-> <<>>, analysis |-> ""]
                ELSE [hasItems |-> out.hasItems, items |-> out.items,
                      analysis |-> out.analysis]
      itemsWithIds ==
        IF result.hasItems
        THEN [i \in 1..Len(result.items) |->
                [result.items[i] EXCEPT !.id = ids[i]]]
        ELSE <<>>
  IN  [items |-> itemsWithIds,
       cookingAnalysis |-> IF result.analysis # "" THEN result.analysis
                           ELSE DefaultAnalysis]

\* ------------------------------------------------------------------------
\* Macro Aggregator and Goal Evaluator (src/components/MacroProgress.tsx)
\* ------------------------------------------------------------------------

ZeroTotal ==
  [calories |-> Zero, protein |-> Zero, carbs |-> Zero, fat |-> Zero,
   oil |-> Zero]

\* meal.items.forEach(item => acc.x += item.x), from item i on
RECURSIVE AddItems(_, _, _)
AddItems(items, i, acc) ==
  IF i > Len(items) THEN acc
  ELSE AddItems(items, i + 1,
         [calories |-> Add(acc.calories, items[i].calories),
          protein |-> Add(acc.protein, items[i].protein),
          carbs |-> Add(acc.carbs, items[i].carbs),
          fat |-> Add(acc.fat, items[i].fat),
          oil |-> Add(acc.oil, items[i].addedOilCalories)])

\* AddMeals, the meals flagged isSkipped left out
RECURSIVE AddMeals_skipping(_, _, _)
AddMeals_skipping(meals, m, acc) ==
  IF m > Len(meals) THEN acc
  ELSE AddMeals_skipping(meals, m + 1,
         IF meals[m].isSkipped THEN acc
         ELSE AddItems(meals[m].items, 1, acc))

\* log.meals.reduce(..., acc), from meal m on
RECURSIVE AddMeals(_, _, _)
AddMeals(meals, m, acc) ==
  IF m > Len(meals) THEN acc
  ELSE AddMeals(meals, m + 1, AddItems(meals[m].items, 1, acc))

total(log) == AddMeals(log.meals, 1, ZeroTotal)

\* targetCarbs, rounded down
targetCarbs_floor(g) ==
  LET x == Div(Mul(g.calories, g.carbsPercentage), Int2Num(4))
  IN  IF IsFin(x) THEN Int2Num(FloorDiv(x.n, x.d)) ELSE x

targetCarbs(g) == MathRound(Div(Mul(g.calories, g.carbsPercentage), Int2Num(4)))

targetFat(g) == MathRound(Div(Mul(g.calories, g.fatPercentage), Int2Num(9)))

\* currentCarbRatio, always dividing
currentCarbRatio_unguarded(t) ==
  Mul(Div(Mul(t.carbs, Int2Num(4)), t.calories), Int2Num(100))

currentCarbRatio(t) ==
  IF Gt(t.calories, Zero)
  THEN Mul(Div(Mul(t.carbs, Int2Num(4)), t.calories), Int2Num(100))
  ELSE Zero

isCarbRatioGood(t) == Ge(currentCarbRatio(t), Int2Num(50))

getPercent(val, target) ==
  MathMin(Int2Num(100), MathMax(Zero, Mul(Div(val, target), Int2Num(100))))

\* the calorie bar is drawn in the warning colour
overBudget(t, g) == Gt(t.calories, g.calories)

\* what one render of the component computes from its props
MacroProgress(log, g) ==
  LET t == total(log)
  IN  [total |-> t,
       targetCalories |-> g.calories,
       targetProtein |-> g.protein,
       targetCarbs |-> targetCarbs(g),
       targetFat |-> targetFat(g),
       currentCarbRatio |-> currentCarbRatio(t),
       isCarbRatioGood |-> isCarbRatioGood(t),
       overBudget |-> overBudget(t, g),
       pctCalories |-> getPercent(t.calories, g.calories),
       pctProtein |-> getPercent(t.protein, g.protein),
       pctCarbs |-> getPercent(t.carbs, targetCarbs(g)),
       pctFat |-> getPercent(t.fat, targetFat(g))]

\* ------------------------------------------------------------------------
\* The application state (src/App.tsx)
\* ------------------------------------------------------------------------

VARIABLES
  logs,             \* date -> Daily Log, the Log Store
  selectedDate,
  activeMealInput,  \* the slot key whose add form is open, or "null"
  isProcessing,
  editingMealId,    \* the meal id being edited, or <<>>
  pending,          \* the suspended handleAddFood calls (their closures)
  alerts,           \* the messages shown by alert(), in order
  goals,            \* the goals prop of MacroProgress
  mpView,           \* what MacroProgress last rendered
  nRequests,        \* extraction requests started so far
  nEdits,           \* edits made so far
  trace,            \* the weight edits made so far: item before, new weight
  outcome,          \* what the AI call of the last finished request did
  view,             \* "dashboard", "calendar" or "report"
  reportContent,    \* a text is a sequence of tokens, '' is <<>>
  reportTitle,
  generatingReport,
  pendingReports,   \* the suspended handleGenerateReport calls
  optionsInput,     \* DecisionMaker: the text of the options input
  loading,          \* DecisionMaker
  result,           \* DecisionMaker
  pendingDecides,   \* the suspended handleDecide calls
  stored,           \* what localStorage.getItem did when the App started
  crashed           \* a render has thrown: the App is unmounted

vars ==
  <<logs, selectedDate, activeMealInput, isProcessing, editingMealId,
    pending, alerts, goals, mpView, nRequests, nEdits, trace,
    outcome, view, reportContent, reportTitle, generatingReport,
    pendingReports, optionsInput, loading, result, pendingDecides,
    stored, crashed>>

\* the report state of the App
report ==
  <<view, reportContent, reportTitle, generatingReport, pendingReports>>

\* the state of the DecisionMaker component
decision == <<optionsInput, loading, result, pendingDecides>>

\* how the App started
startup == <<stored, crashed>>

NoImage == "null"

\* the texts typed into the add form, and text.trim() of each
InputTexts == {"", " ", "rice"}

\* what the add form can hold when its save button is pressed (inputState
\* is an input of handleAddFood, not a variable: any content can be typed
\* before the button is pressed)
InputStates == [text : InputTexts, image : {NoImage, "img"}]

Trim(text) == IF text = " " THEN "" ELSE text

\* the texts typed into a weight or metric input
NumberTexts == {"", "0", "50", "100", "-5"}

ItemNames == {"egg"}

\* the texts typed into a body metric input
MetricTexts == {"", "50"}

getDailyLog(store, date) ==
  IF date \in DOMAIN store THEN store[date] ELSE DefaultLog(date)

currentLog == getDailyLog(logs, selectedDate)

\* updateLog, the log stored under the date shown
updateLog_underSelected(store, newLog) ==
  [d \in DOMAIN store \cup {selectedDate} |->
     IF d = selectedDate THEN newLog ELSE store[d]]

\* setLogs(prev => ({ ...prev, [newLog.date]: newLog }))
updateLog(store, newLog) ==
  [d \in DOMAIN store \cup {newLog.date} |->
     IF d = newLog.date THEN newLog ELSE store[d]]

\* the index of the meal drawn in the card of slot key, 0 if none
MealOfType(log, key) ==
  LET byName == {m \in 1..Len(log.meals) : log.meals[m].name = key}
      byId == {m \in 1..Len(log.meals) : log.meals[m].id[1] = key}
      Least(S) == CHOOSE x \in S : \A y \in S : x <= y
  IN  IF byName # {} THEN Least(byName)
      ELSE IF byId # {} THEN Least(byId) ELSE 0

\* RescaleItem, the added oil left unscaled
RescaleItem_oilUnscaled(item, value) ==
  LET newWeight == value
      ratio == IF Gt(item.weight, Zero) THEN Div(newWeight, item.weight)
               ELSE Int2Num(1)
  IN  IF NumEq(item.weight, Zero) THEN [item EXCEPT !.weight = newWeight]
      ELSE [item EXCEPT !.weight = newWeight,
                        !.calories = Mul(item.calories, ratio),
                        !.protein = Mul(item.protein, ratio),
                        !.carbs = Mul(item.carbs, ratio),
                        !.fat = Mul(item.fat, ratio)]

\* RescaleItem, the ratio taken without the guards for a weight of 0
RescaleItem_unguarded(item, value) ==
  LET newWeight == value
      ratio == Div(newWeight, item.weight)
  IN  [item EXCEPT !.weight = newWeight,
                   !.calories = Mul(item.calories, ratio),
                   !.protein = Mul(item.protein, ratio),
                   !.carbs = Mul(item.carbs, ratio),
                   !.fat = Mul(item.fat, ratio),
                   !.addedOilCalories = Mul(item.addedOilCalories, ratio)]

\* RescaleItem, the scaled values rounded to whole numbers
RescaleItem_rounded(item, value) ==
  LET newWeight == value
      ratio == IF Gt(item.weight, Zero) THEN Div(newWeight, item.weight)
               ELSE Int2Num(1)
  IN  IF NumEq(item.weight, Zero) THEN [item EXCEPT !.weight = newWeight]
      ELSE [item EXCEPT !.weight = newWeight,
                        !.calories = MathRound(Mul(item.calories, ratio)),
                        !.protein = MathRound(Mul(item.protein, ratio)),
                        !.carbs = MathRound(Mul(item.carbs, ratio)),
                        !.fat = MathRound(Mul(item.fat, ratio)),
                        !.addedOilCalories =
                           MathRound(Mul(item.addedOilCalories, ratio))]

\* the item returned for a weight edit of item to value
RescaleItem(item, value) ==
  LET newWeight == value
      ratio == IF Gt(item.weight, Zero) THEN Div(newWeight, item.weight)
               ELSE Int2Num(1)
  IN  IF NumEq(item.weight, Zero) THEN [item EXCEPT !.weight = newWeight]
      ELSE [item EXCEPT !.weight = newWeight,
                        !.calories = Mul(item.calories, ratio),
                        !.protein = Mul(item.protein, ratio),
                        !.carbs = Mul(item.carbs, ratio),
                        !.fat = Mul(item.fat, ratio),
                        !.addedOilCalories = Mul(item.addedOilCalories, ratio)]

\* updatedMeals of handleUpdateItemDetails
UpdateItemDetails(log, mealId, itemId, field, value) ==
  [m \in 1..Len(log.meals) |->
     LET meal == log.meals[m]
     IN  IF meal.id # mealId THEN meal
         ELSE [meal EXCEPT !.items =
                 [i \in 1..Len(meal.items) |->
                    LET item == meal.items[i]
                    IN  IF item.id # itemId THEN item
                        ELSE IF field = "weight" THEN RescaleItem(item, value)
                        ELSE IF field = "name"
                             THEN [item EXCEPT !.name = value]
                        ELSE item]]]

\* items.filter(i => i.id !== itemId)
FilterOut(items, itemId) ==
  SelectSeq(items, LAMBDA it : it.id # itemId)

\* updatedMeals of handleDeleteItem
DeleteItem(log, mealId, itemId) ==
  [m \in 1..Len(log.meals) |->
     LET meal == log.meals[m]
     IN  IF meal.id # mealId THEN meal
         ELSE [meal EXCEPT !.items = FilterOut(meal.items, itemId)]]

\* updatedMeals of handleAddFood, the note replaced by the new analysis
AppendItems_overwriting(log, mealId, items, cookingAnalysis) ==
  [m \in 1..Len(log.meals) |->
     LET meal == log.meals[m]
     IN  IF meal.id = mealId
         THEN [meal EXCEPT !.items = meal.items \o items,
                           !.cookingMethodNote = <<cookingAnalysis>>]
         ELSE meal]

\* updatedMeals of handleAddFood
AppendItems(log, mealId, items, cookingAnalysis) ==
  [m \in 1..Len(log.meals) |->
     LET meal == log.meals[m]
     IN  IF meal.id = mealId
         THEN [meal EXCEPT
                 !.items = meal.items \o items,
                 !.cookingMethodNote =
                    IF Len(meal.cookingMethodNote) > 0
                    THEN Append(meal.cookingMethodNote, cookingAnalysis)
                    ELSE <<cookingAnalysis>>]
         ELSE meal]

\* the meal cards of the dashboard: slot key and the id of the meal drawn
Cards ==
  {c \in [key : {MEAL_TYPES[t] : t \in 1..Len(MEAL_TYPES)},
          m : 1..Len(currentLog.meals)] :
     MealOfType(currentLog, c.key) = c.m}

RemoveAt(seq, i) == SubSeq(seq, 1, i - 1) \o SubSeq(seq, i + 1, Len(seq))

AlertPrefix == "cannot recognise food"

\* ------------------------------------------------------------------------
\* Handlers
\* ------------------------------------------------------------------------

\* changeDate, the log of the date moved to stored on arrival
changeDate_storing(offset) ==
  LET newDate == IF selectedDate + offset <= Today
                 THEN selectedDate + offset ELSE selectedDate
  IN  /\ selectedDate + offset >= 1
      /\ selectedDate' = newDate
      /\ logs' = updateLog(logs, getDailyLog(logs, newDate))
      /\ UNCHANGED <<activeMealInput, isProcessing,
                     editingMealId, pending, alerts>>

\* changeDate(offset); days before day 1 are outside the model
changeDate(offset) ==
  /\ selectedDate + offset >= 1
  /\ selectedDate' = IF selectedDate + offset <= Today
                     THEN selectedDate + offset ELSE selectedDate
  /\ UNCHANGED <<logs, activeMealInput, isProcessing,
                 editingMealId, pending, alerts>>

\* the date inputs (max = today): setSelectedDate(e.target.value)
PickDate(date) ==
  /\ selectedDate' = date
  /\ UNCHANGED <<logs, activeMealInput, isProcessing,
                 editingMealId, pending, alerts>>

\* the edit / done button of a meal card
ToggleEditing(c) ==
  LET meal == currentLog.meals[c.m]
  IN  /\ activeMealInput # c.key
      /\ Len(meal.items) > 0
      /\ editingMealId' = IF editingMealId = meal.id THEN <<>> ELSE meal.id
      /\ UNCHANGED <<logs, selectedDate, activeMealInput, isProcessing, pending, alerts>>

\* the record button of a meal card
OpenMealInput(c) ==
  /\ activeMealInput # c.key
  /\ editingMealId # currentLog.meals[c.m].id
  /\ activeMealInput' = c.key
  /\ editingMealId' = <<>>
  /\ UNCHANGED <<logs, selectedDate, isProcessing, pending, alerts>>

\* the cancel button of the add form
CancelInput ==
  /\ activeMealInput # "null"
  /\ activeMealInput' = "null"
  /\ UNCHANGED <<logs, selectedDate, isProcessing, editingMealId,
                 pending, alerts>>

\* handleAddFood up to its await; the save button is disabled while
\* isProcessing
handleAddFood(c, input) ==
  LET mealId == currentLog.meals[c.m].id
  IN  /\ activeMealInput = c.key
      /\ ~isProcessing
      /\ IF Trim(input.text) = "" /\ input.image = NoImage
         THEN UNCHANGED <<isProcessing, pending>>
         ELSE /\ isProcessing' = TRUE
              /\ pending' = Append(pending,
                              [currentLog |-> currentLog, mealId |-> mealId])
      /\ UNCHANGED <<logs, selectedDate, activeMealInput, editingMealId, alerts>>

\* handleAddFood after its await, parseFoodEntry having returned
handleAddFoodResolved(p, out, ids) ==
  LET call == pending[p]
      res == ParseFoodEntry(out, ids)
      updatedMeals == AppendItems(call.currentLog, call.mealId, res.items,
                                  res.cookingAnalysis)
  IN  /\ ~ParseThrows(out)
      /\ logs' = updateLog(logs, [call.currentLog EXCEPT !.meals = updatedMeals])
          /\ activeMealInput' = "null"
      /\ isProcessing' = FALSE
      /\ pending' = RemoveAt(pending, p)
      /\ UNCHANGED <<selectedDate, editingMealId, alerts>>

\* handleAddFoodRejected, the log captured by the call written back
handleAddFoodRejected_writesBack(p, out) ==
  /\ ParseThrows(out)
  /\ logs' = updateLog(logs, pending[p].currentLog)
  /\ alerts' = Append(alerts, [prefix |-> AlertPrefix,
                               message |-> ParseErrorMessage(out)])
  /\ isProcessing' = FALSE
  /\ pending' = RemoveAt(pending, p)
  /\ UNCHANGED <<selectedDate, activeMealInput, editingMealId>>

\* handleAddFoodRejected without the finally block
handleAddFoodRejected_stillProcessing(p, out) ==
  /\ ParseThrows(out)
  /\ alerts' = Append(alerts, [prefix |-> AlertPrefix,
                               message |-> ParseErrorMessage(out)])
  /\ pending' = RemoveAt(pending, p)
  /\ UNCHANGED <<logs, selectedDate, activeMealInput, editingMealId,
                 isProcessing>>

\* handleAddFood after its await, parseFoodEntry having thrown
handleAddFoodRejected(p, out) ==
  /\ ParseThrows(out)
  /\ alerts' = Append(alerts, [prefix |-> AlertPrefix,
                               message |-> ParseErrorMessage(out)])
  /\ isProcessing' = FALSE
  /\ pending' = RemoveAt(pending, p)
  /\ UNCHANGED <<logs, selectedDate, activeMealInput, editingMealId>>

\* the name and weight inputs of an item of the meal being edited
handleUpdateItemDetails(mealId, itemId, field, value) ==
  LET updatedMeals == UpdateItemDetails(currentLog, mealId, itemId, field, value)
  IN  /\ logs' = updateLog(logs, [currentLog EXCEPT !.meals = updatedMeals])
      /\ UNCHANGED <<selectedDate, activeMealInput, isProcessing,
                     editingMealId, pending, alerts>>

\* the delete button of an item of the meal being edited
handleDeleteItem(mealId, itemId) ==
  LET updatedMeals == DeleteItem(currentLog, mealId, itemId)
  IN  /\ logs' = updateLog(logs, [currentLog EXCEPT !.meals = updatedMeals])
      /\ UNCHANGED <<selectedDate, activeMealInput, isProcessing,
                     editingMealId, pending, alerts>>

\* the body metric inputs
handleUpdateMetrics(key, text) ==
  LET num == ParseFloat(text)
  IN  /\ logs' = updateLog(logs,
                   [currentLog EXCEPT
                      !.metrics[key] = IF IsNaN(num) THEN Null ELSE num])
      /\ UNCHANGED <<selectedDate, activeMealInput, isProcessing,
                     editingMealId, pending, alerts>>

\* the items an edit can address: those drawn in the card being edited
EditableItems ==
  UNION { { [mealId |-> currentLog.meals[c.m].id,
             itemId |-> currentLog.meals[c.m].items[i].id] :
            i \in 1..Len(currentLog.meals[c.m].items) } :
          c \in {x \in Cards : currentLog.meals[x.m].id = editingMealId} }

\* the item of the current log an edit addresses (the first with that id)
ItemOf(e) ==
  LET meal == currentLog.meals[CHOOSE m \in 1..Len(currentLog.meals) :
                                 currentLog.meals[m].id = e.mealId]
      first == CHOOSE i \in 1..Len(meal.items) :
                 /\ meal.items[i].id = e.itemId
                 /\ \A j \in 1..(i - 1) : meal.items[j].id # e.itemId
  IN  meal.items[first]

EditWeight(e, text) ==
  handleUpdateItemDetails(e.mealId, e.itemId, "weight", ParseFloat(text))

EditName(e, name) ==
  handleUpdateItemDetails(e.mealId, e.itemId, "name", name)

Navigate ==
  \/ \E offset \in {-1, 1} : changeDate(offset)
  \/ \E date \in Dates : PickDate(date)

AddForm ==
  \/ \E c \in Cards : OpenMealInput(c)
  \/ CancelInput

Editing == \E c \in Cards : ToggleEditing(c)

\* ------------------------------------------------------------------------
\* The application, started on an empty Log Store
\* ------------------------------------------------------------------------

history == <<nRequests, nEdits, trace, outcome>>

\* MacroProgress has not rendered
NotRendered == [total |-> ZeroTotal]

\* the variables of the MacroProgress component
progress == <<goals, mpView>>

\* the variables the handlers of the dashboard leave alone
others == <<report, decision, startup>>

EmptyStore == [d \in {} |-> DefaultLog(d)]

\* what localStorage.getItem(STORAGE_KEY) did: kind is "absent" (null),
\* "throws", "badjson", "null" (the text 'null') or "mapping" (the text
\* of the store value)
Stored(kind, value) == [kind |-> kind, value |-> value]

\* the value null as the Log Store: it is no mapping, and reading a date
\* of it throws
NullLogs == [d \in {0} |-> Null]

\* the render of the App evaluates getDailyLog(selectedDate), and
\* logs[date] throws a TypeError when logs is null
RenderThrows(store) == store = NullLogs

\* result is null
NoResult == [kind |-> "null", fields |-> {}]

InitUI ==
  /\ selectedDate = Today
  /\ activeMealInput = "null"
  /\ isProcessing = FALSE
  /\ editingMealId = <<>>
  /\ pending = <<>>
  /\ alerts = <<>>
  /\ nRequests = 0
  /\ nEdits = 0
  /\ trace = <<>>
  /\ outcome = NoOutcome
  /\ view = "dashboard"
  /\ reportContent = <<>>
  /\ reportTitle = <<>>
  /\ generatingReport = FALSE
  /\ pendingReports = <<>>
  /\ optionsInput = <<>>
  /\ loading = FALSE
  /\ result = NoResult
  /\ pendingDecides = <<>>
  /\ crashed = RenderThrows(logs)

Init ==
  /\ stored = Stored("absent", EmptyStore)
  /\ logs = EmptyStore
  /\ goals = DEFAULT_GOALS
  /\ mpView = NotRendered
  /\ InitUI

\* an edit, counted
Edit ==
  /\ nEdits < MaxEdits
  /\ nEdits' = nEdits + 1
  /\ UNCHANGED <<nRequests, trace, outcome>>
  /\ \/ \E e \in EditableItems, text \in NumberTexts : EditWeight(e, text)
     \/ \E e \in EditableItems, name \in ItemNames : EditName(e, name)
     \/ \E e \in EditableItems : handleDeleteItem(e.mealId, e.itemId)
     \/ \E key \in MetricKeys, text \in MetricTexts :
          handleUpdateMetrics(key, text)

\* the save button, a started request counted
StartAdd ==
  /\ nRequests < MaxRequests
  /\ \E c \in Cards, input \in InputStates : handleAddFood(c, input)
  /\ nRequests' = IF pending' # pending THEN nRequests + 1 ELSE nRequests
  /\ UNCHANGED <<nEdits, trace, outcome>>

\* the AI call of a suspended handleAddFood returns or throws
FinishAdd ==
  /\ \E p \in 1..Len(pending), out \in AIOutcomes :
       /\ \/ \E ids \in [1..1 -> RandomIds] :
               handleAddFoodResolved(p, out, ids)
          \/ handleAddFoodRejected(p, out)
       /\ outcome' = out
  /\ UNCHANGED <<nRequests, nEdits, trace>>

Next ==
  \/ Navigate /\ UNCHANGED <<history, progress, others>>
  \/ Editing /\ UNCHANGED <<history, progress, others>>
  \/ AddForm /\ UNCHANGED <<history, progress, others>>
  \/ Edit /\ UNCHANGED <<progress, others>>
  \/ StartAdd /\ UNCHANGED <<progress, others>>
  \/ FinishAdd /\ UNCHANGED <<progress, others>>

Spec == Init /\ [][Next]_vars

\* ------------------------------------------------------------------------
\* The application, started on a Log Store read from storage, its items
\* being rescaled
\* ------------------------------------------------------------------------

\* number of weight edits that may be made
MaxRescales == 2

StoredMacros ==
  { [calories |-> Int2Num(70), protein |-> Int2Num(6), carbs |-> Rat(6, 10),
     fat |-> Int2Num(5), oil |-> Zero],
    [calories |-> Int2Num(45), protein |-> Zero, carbs |-> Zero,
     fat |-> Int2Num(5), oil |-> Int2Num(45)] }

StoredItems ==
  { Ingredient("stored", "stored", w, m.calories, m.protein, m.carbs, m.fat,
               m.oil) :
      w \in {Zero, Int2Num(50), Int2Num(100)}, m \in StoredMacros }

\* a stored log: the default log with a lunch as given
StoredLog(date, lunchItems, skipped) ==
  [DefaultLog(date) EXCEPT !.meals[2].items = lunchItems,
                           !.meals[2].isSkipped = skipped]

EditStores ==
  {EmptyStore} \cup
  { [d \in {Today} |-> StoredLog(Today, <<it>>, FALSE)] : it \in StoredItems }

InitEdit ==
  /\ logs \in EditStores
  /\ stored = Stored("mapping", logs)
  /\ goals = DEFAULT_GOALS
  /\ mpView = NotRendered
  /\ InitUI

\* a weight edit, recorded
Rescale ==
  /\ Len(trace) < MaxRescales
  /\ \E e \in EditableItems, text \in NumberTexts :
       /\ EditWeight(e, text)
       /\ trace' = Append(trace, [mealId |-> e.mealId, itemId |-> e.itemId,
                                  before |-> ItemOf(e),
                                  value |-> ParseFloat(text)])
  /\ UNCHANGED <<nRequests, nEdits, outcome>>

NextEdit ==
  \/ Editing /\ UNCHANGED <<history, progress, others>>
  \/ Rescale /\ UNCHANGED <<progress, others>>

SpecEdit == InitEdit /\ [][NextEdit]_vars

\* ------------------------------------------------------------------------
\* MacroProgress, rendered from the selected log of a Log Store read from
\* storage and from the goals it is given
\* ------------------------------------------------------------------------

StoredRice ==
  Ingredient("stored", "rice", Int2Num(100), Int2Num(130), Int2Num(3),
             Int2Num(28), Rat(3, 10), Zero)

StoredBread ==
  Ingredient("stored", "bread", Int2Num(30), Int2Num(80), Int2Num(3),
             Int2Num(10), Int2Num(1), Int2Num(9))

ProgressStores ==
  { EmptyStore,
    [d \in {Today} |-> StoredLog(Today, <<StoredRice>>, TRUE)],
    [d \in {Today} |->
       [DefaultLog(Today) EXCEPT !.meals[1].items = <<StoredBread>>]] }

GoalsDomain ==
  [calories : {Zero, Int2Num(1), Int2Num(220), Int2Num(1350)},
   protein : {Zero, Int2Num(75)},
   carbsPercentage : {Zero, Rat(55, 100)},
   fatPercentage : {Rat(25, 100)}]

InitProgress ==
  /\ logs \in ProgressStores
  /\ stored = Stored("mapping", logs)
  /\ goals \in GoalsDomain
  /\ InitUI
  /\ mpView = MacroProgress(currentLog, goals)

\* the component is rendered again after a state change of its parent
Rerender ==
  /\ goals' = goals
  /\ mpView' = MacroProgress(getDailyLog(logs', selectedDate'), goals')
  /\ UNCHANGED <<history, others>>

NextProgress ==
  \/ Navigate /\ Rerender
  \/ Editing /\ Rerender
  \/ (\E e \in EditableItems : handleDeleteItem(e.mealId, e.itemId)) /\ Rerender

SpecProgress == InitProgress /\ [][NextProgress]_vars

\* ------------------------------------------------------------------------
\* The application, started on what localStorage holds
\* ------------------------------------------------------------------------

\* stores an earlier session has saved: a lunch extracted then
SavedStores ==
  { [d \in {Today} |->
       StoredLog(Today, <<[RawRice EXCEPT !.id = id]>>, FALSE)] :
     id \in RandomIds }

StorageContents ==
  { Stored(kind, EmptyStore) :
      kind \in {"absent", "throws", "badjson", "null"} }
  \cup { Stored("mapping", store) : store \in SavedStores \cup {EmptyStore} }

\* the initialiser of logs:
\* try { return stored ? JSON.parse(stored) : {} } catch { return {} }
LoadLogs(st) ==
  CASE st.kind = "absent" -> EmptyStore
    [] st.kind = "throws" -> EmptyStore
    [] st.kind = "badjson" -> EmptyStore
    [] st.kind = "null" -> NullLogs
    [] OTHER -> st.value

InitStartup ==
  /\ stored \in StorageContents
  /\ logs = LoadLogs(stored)
  /\ goals = DEFAULT_GOALS
  /\ mpView = NotRendered
  /\ InitUI

\* a deletion, counted
Remove ==
  /\ nEdits < MaxEdits
  /\ nEdits' = nEdits + 1
  /\ UNCHANGED <<nRequests, trace, outcome>>
  /\ \E e \in EditableItems : handleDeleteItem(e.mealId, e.itemId)

\* nothing is rendered once a render has thrown
NextStartup ==
  \/ ~crashed /\ Navigate /\ UNCHANGED <<history, progress, others>>
  \/ ~crashed /\ Editing /\ UNCHANGED <<history, progress, others>>
  \/ ~crashed /\ AddForm /\ UNCHANGED <<history, progress, others>>
  \/ ~crashed /\ Remove /\ UNCHANGED <<progress, others>>
  \/ ~crashed /\ StartAdd /\ UNCHANGED <<progress, others>>
  \/ ~crashed /\ FinishAdd /\ UNCHANGED <<progress, others>>

SpecStartup == InitStartup /\ [][NextStartup]_vars

\* ------------------------------------------------------------------------
\* The DecisionMaker component (src/unnamed/part_000), mounted while the
\* dashboard is shown
\* ------------------------------------------------------------------------

\* the length of the texts typed into the options input
MaxOptionLen == 2

\* recommendation requests started in one behaviour
MaxDecides == 2

\* the characters of an options text: a letter, the comma, the Chinese
\* comma, the newline and the space
OptionChars == {"a", ",", "zh-comma", "nl", " "}

OptionTexts == UNION {[1..n -> OptionChars] : n \in 0..MaxOptionLen}

\* white space of String.prototype.trim
IsSpace(c) == c \in {" ", "nl"}

\* the separators of /[,\uFF0C\n]/
IsSeparator(c) == c \in {",", "zh-comma", "nl"}

RECURSIVE TrimStart(_)
TrimStart(text) ==
  IF text # <<>> /\ IsSpace(Head(text)) THEN TrimStart(Tail(text)) ELSE text

RECURSIVE TrimEnd(_)
TrimEnd(text) ==
  IF text # <<>> /\ IsSpace(text[Len(text)])
  THEN TrimEnd(SubSeq(text, 1, Len(text) - 1)) ELSE text

\* text.trim()
TrimText(text) == TrimEnd(TrimStart(text))

\* text.split(/[,\uFF0C\n]/): parts holds the finished pieces, piece the
\* one being read
RECURSIVE SplitFrom(_, _, _)
SplitFrom(text, parts, piece) ==
  IF text = <<>> THEN Append(parts, piece)
  ELSE IF IsSeparator(Head(text))
       THEN SplitFrom(Tail(text), Append(parts, piece), <<>>)
       ELSE SplitFrom(Tail(text), parts, Append(piece, Head(text)))

Split(text) == SplitFrom(text, <<>>, <<>>)

\* options of handleDecide: split, each piece trimmed, the empty dropped
Options(text) ==
  LET pieces == Split(text)
      trimmed == [i \in 1..Len(pieces) |-> TrimText(pieces[i])]
  IN  SelectSeq(trimmed, LAMBDA piece : piece # <<>>)

AllFields == {"recommendation", "suggestedPortions", "reasoning"}

\* what getAIClient / generateContent can do for one recommendation
\* request: throw, or return a response text
RecommendOutcomes ==
  { [kind |-> "nokey", fields |-> {}],
    [kind |-> "network", fields |-> {}],
    [kind |-> "badjson", fields |-> {}],
    [kind |-> "empty", fields |-> {}],
    [kind |-> "json", fields |-> {"reasoning"}],
    [kind |-> "json", fields |-> AllFields] }

\* getMealRecommendation throws on this outcome
RecommendThrows(out) == out.kind \in {"nokey", "network", "badjson"}

\* the value getMealRecommendation resolves to:
\* JSON.parse(response.text || "{}")
GetMealRecommendation(out) ==
  [kind |-> "object",
   fields |-> IF out.kind = "empty" THEN {} ELSE out.fields]

DecideAlert == [prefix |-> "cannot recommend", message |-> ""]

\* the DecisionMaker is unmounted: its state is gone, and the calls it
\* has suspended set the state of no mounted component
Unmount ==
  /\ optionsInput' = <<>>
  /\ loading' = FALSE
  /\ result' = NoResult
  /\ pendingDecides' = [p \in 1..Len(pendingDecides) |->
                          [pendingDecides[p] EXCEPT !.mounted = FALSE]]

\* the calendar button of the dashboard
OpenCalendar ==
  /\ view = "dashboard"
  /\ view' = "calendar"
  /\ Unmount
  /\ UNCHANGED <<logs, selectedDate, activeMealInput, isProcessing,
                 editingMealId, pending, alerts, reportContent,
                 reportTitle, generatingReport, pendingReports>>

\* the back buttons of the calendar and of the report
BackToDashboard ==
  /\ view # "dashboard"
  /\ view' = "dashboard"
  /\ UNCHANGED <<logs, selectedDate, activeMealInput, isProcessing,
                 editingMealId, pending, alerts, reportContent,
                 reportTitle, generatingReport, pendingReports, decision>>

\* the date input of the calendar
PickCalendarDate(date) ==
  /\ view = "calendar"
  /\ selectedDate' = date
  /\ view' = "dashboard"
  /\ UNCHANGED <<logs, activeMealInput, isProcessing,
                 editingMealId, pending, alerts, reportContent,
                 reportTitle, generatingReport, pendingReports, decision>>

\* the options input
setOptionsInput(text) ==
  /\ view = "dashboard"
  /\ optionsInput' = text
  /\ UNCHANGED <<loading, result, pendingDecides>>

\* handleDecide up to its await; the button is disabled while loading
handleDecide ==
  /\ view = "dashboard"
  /\ ~loading
  /\ IF TrimText(optionsInput) = <<>>
     THEN UNCHANGED <<loading, result, pendingDecides>>
     ELSE /\ loading' = TRUE
          /\ result' = NoResult
          /\ pendingDecides' =
               Append(pendingDecides,
                      [options |-> Options(optionsInput),
                       currentLog |-> currentLog, mounted |-> TRUE])
  /\ UNCHANGED optionsInput

\* handleDecide after its await, getMealRecommendation having returned
handleDecideResolved(p, out) ==
  /\ ~RecommendThrows(out)
  /\ IF pendingDecides[p].mounted
     THEN /\ result' = GetMealRecommendation(out)
          /\ loading' = FALSE
     ELSE UNCHANGED <<result, loading>>
  /\ pendingDecides' = RemoveAt(pendingDecides, p)
  /\ UNCHANGED <<optionsInput, alerts>>

\* handleDecide after its await, getMealRecommendation having thrown
handleDecideRejected(p, out) ==
  /\ RecommendThrows(out)
  /\ alerts' = Append(alerts, DecideAlert)
  /\ IF pendingDecides[p].mounted
     THEN loading' = FALSE
     ELSE UNCHANGED loading
  /\ pendingDecides' = RemoveAt(pendingDecides, p)
  /\ UNCHANGED <<optionsInput, result>>

\* the dashboard state the DecisionMaker does not touch
dashboard ==
  <<logs, selectedDate, activeMealInput, isProcessing, editingMealId,
    pending>>

TypeOptions ==
  /\ \E text \in OptionTexts : setOptionsInput(text)
  /\ UNCHANGED <<dashboard, alerts, report, startup, history, progress>>

\* the decide button, a started request counted
StartDecide ==
  /\ nRequests < MaxDecides
  /\ handleDecide
  /\ nRequests' = IF pendingDecides' # pendingDecides
                  THEN nRequests + 1 ELSE nRequests
  /\ UNCHANGED <<dashboard, alerts, report, startup, progress,
                 nEdits, trace, outcome>>

\* the AI call of a suspended handleDecide returns or throws
FinishDecide ==
  /\ \E p \in 1..Len(pendingDecides), out \in RecommendOutcomes :
       \/ handleDecideResolved(p, out)
       \/ handleDecideRejected(p, out)
  /\ UNCHANGED <<dashboard, report, startup, history, progress>>

NextDecide ==
  \/ TypeOptions
  \/ StartDecide
  \/ FinishDecide
  \/ OpenCalendar /\ UNCHANGED <<startup, history, progress>>
  \/ BackToDashboard /\ UNCHANGED <<startup, history, progress>>
  \/ (\E date \in Dates : PickCalendarDate(date))
       /\ UNCHANGED <<startup, history, progress>>

SpecDecide == Init /\ [][NextDecide]_vars

\* ------------------------------------------------------------------------
\* Reports (handleGenerateReport of src/App.tsx, generateDailyReport and
\* generateWeeklyReport of src/services/geminiService.ts)
\* ------------------------------------------------------------------------

\* the days a stored log can be of: the last MaxStoredLogs days
MaxStoredLogs == 8

\* report requests started in one behaviour
MaxReports == 2

\* day 0 of the model is the calendar day DayBase
DayBase == 8

StoredDays == (Today - MaxStoredLogs + 1)..Today

\* a date key without the padding of the date format
DateKey_unpadded(d) ==
  LET n == d + DayBase
  IN  IF n < 10 THEN <<n>> ELSE <<n \div 10, n % 10>>

\* the key of a date in the store: the digits of the day, zero-padded as
\* in YYYY-MM-DD
DateKey(d) ==
  LET n == d + DayBase
  IN  <<n \div 10, n % 10>>

\* a < b in the order of Array.prototype.sort() without a comparator:
\* strings compared code unit by code unit
RECURSIVE LexLess(_, _)
LexLess(a, b) ==
  IF a = <<>> THEN b # <<>>
  ELSE IF b = <<>> THEN FALSE
  ELSE IF Head(a) = Head(b) THEN LexLess(Tail(a), Tail(b))
  ELSE Head(a) < Head(b)

\* Object.keys(store).sort()
RECURSIVE SortedKeys(_)
SortedKeys(days) ==
  IF days = {} THEN <<>>
  ELSE LET least == CHOOSE d \in days :
                      \A e \in days \ {d} : LexLess(DateKey(d), DateKey(e))
       IN  <<least>> \o SortedKeys(days \ {least})

\* Object.keys(logs).sort().slice(-7)
RecentDates(store) ==
  LET sorted == SortedKeys(DOMAIN store)
      from == IF Len(sorted) > 7 THEN Len(sorted) - 6 ELSE 1
  IN  SubSeq(sorted, from, Len(sorted))

\* dates.map(d => logs[d])
RecentLogs(store) ==
  LET dates == RecentDates(store)
  IN  [i \in 1..Len(dates) |-> store[dates[i]]]

ReportTypes == {"daily", "nutrition", "fat_loss"}

\* what getAIClient / generateContent can do for one report request:
\* throw an error with a message, or return a response with a text
ReportOutcomes ==
  { [kind |-> "throws", text |-> <<>>, message |-> <<NoKey>>],
    [kind |-> "throws", text |-> <<>>, message |-> <<NetworkError>>],
    [kind |-> "text", text |-> <<>>, message |-> <<>>],
    [kind |-> "text", text |-> <<"report">>, message |-> <<>>] }

ReportFailed == "report failed"

CannotGenerate == "cannot generate report"

\* generateDailyReport, the fallback for an empty text left out
GenerateDailyReport_noFallback(log, out) ==
  IF out.kind = "throws" THEN <<ReportFailed, ":">> \o out.message
  ELSE out.text

\* the string generateDailyReport resolves to
GenerateDailyReport(log, out) ==
  IF out.kind = "throws" THEN <<ReportFailed, ":">> \o out.message
  ELSE IF out.text # <<>> THEN out.text ELSE <<ReportFailed>>

\* the string generateWeeklyReport resolves to
GenerateWeeklyReport(weekLogs, type, out) ==
  IF out.kind = "throws" THEN <<ReportFailed, ":">> \o out.message
  ELSE IF out.text # <<>> THEN out.text ELSE <<CannotGenerate>>

ReportTitle(type) ==
  CASE type = "daily" -> <<"today's nutrition">>
    [] type = "nutrition" -> <<"this week's nutrition">>
    [] OTHER -> <<"this week's fat loss">>

\* handleGenerateReport up to its await; the daily button is on the
\* dashboard, the weekly buttons are on the calendar
handleGenerateReport(type) ==
  /\ view = (IF type = "daily" THEN "dashboard" ELSE "calendar")
  /\ generatingReport' = TRUE
  /\ view' = "report"
  /\ reportContent' = <<>>
  /\ reportTitle' = ReportTitle(type)
  /\ pendingReports' =
       Append(pendingReports,
              [type |-> type,
               logs |-> IF type = "daily" THEN <<currentLog>>
                        ELSE RecentLogs(logs)])
  /\ IF view = "dashboard" THEN Unmount ELSE UNCHANGED decision
  /\ UNCHANGED <<logs, selectedDate, activeMealInput, isProcessing,
                 editingMealId, pending, alerts>>

\* handleGenerateReport after its await
handleGenerateReportReturned(p, out) ==
  LET call == pendingReports[p]
      reportText == IF call.type = "daily"
                    THEN GenerateDailyReport(call.logs[1], out)
                    ELSE GenerateWeeklyReport(call.logs, call.type, out)
  IN  /\ reportContent' = reportText
      /\ generatingReport' = FALSE
      /\ pendingReports' = RemoveAt(pendingReports, p)
      /\ UNCHANGED <<logs, selectedDate, activeMealInput, isProcessing,
                     editingMealId, pending, alerts, view, reportTitle,
                     decision>>

\* stores holding the untouched logs of the last k days, of one day, or
\* of all but one of the last days
ReportStores ==
  { [d \in days |-> DefaultLog(d)] :
      days \in { (Today - k + 1)..Today : k \in 0..MaxStoredLogs }
               \cup { S \in SUBSET StoredDays :
                        \/ Cardinality(S) = 1
                        \/ Cardinality(S) = MaxStoredLogs - 1 } }

InitReport ==
  /\ logs \in ReportStores
  /\ stored = Stored("mapping", logs)
  /\ goals = DEFAULT_GOALS
  /\ mpView = NotRendered
  /\ InitUI

\* a report button, the request counted
StartReport ==
  /\ nRequests < MaxReports
  /\ nRequests' = nRequests + 1
  /\ \E type \in ReportTypes : handleGenerateReport(type)
  /\ UNCHANGED <<nEdits, trace, outcome, progress, startup>>

\* the AI call of a suspended handleGenerateReport returns or throws
FinishReport ==
  /\ \E p \in 1..Len(pendingReports), out \in ReportOutcomes :
       /\ handleGenerateReportReturned(p, out)
       /\ outcome' = out
  /\ UNCHANGED <<nRequests, nEdits, trace, progress, startup>>

NextReport ==
  \/ OpenCalendar /\ UNCHANGED <<startup, history, progress>>
  \/ BackToDashboard /\ UNCHANGED <<startup, history, progress>>
  \/ (\E date \in Dates : PickCalendarDate(date))
       /\ UNCHANGED <<startup, history, progress>>
  \/ StartReport
  \/ FinishReport

SpecReport == InitReport /\ [][NextReport]_vars

\* ------------------------------------------------------------------------
\* The dashboard with its add forms and its DecisionMaker, every AI call
\* returning
\* ------------------------------------------------------------------------

\* the texts typed into the options input: empty, an option, a separator
LiveTexts == {<<>>, <<"a">>, <<",">>}

\* the AI call of a suspended handleAddFood returns or throws
ReturnAdd == FinishAdd /\ UNCHANGED <<progress, others>>

\* the AI call of a suspended handleDecide returns or throws
ReturnDecide == FinishDecide

NextLive ==
  \/ view = "dashboard" /\ AddForm /\ UNCHANGED <<history, progress, others>>
  \/ view = "dashboard" /\ StartAdd /\ UNCHANGED <<progress, others>>
  \/ ReturnAdd
  \/ (\E text \in LiveTexts : setOptionsInput(text))
       /\ UNCHANGED <<dashboard, alerts, report, startup, history, progress>>
  \/ StartDecide
  \/ ReturnDecide
  \/ OpenCalendar /\ UNCHANGED <<startup, history, progress>>
  \/ BackToDashboard /\ UNCHANGED <<startup, history, progress>>

\* an AI call that has been made returns or throws in the end
SpecLive ==
  /\ Init
  /\ [][NextLive]_vars
  /\ WF_vars(ReturnAdd)
  /\ WF_vars(ReturnDecide)

\* ------------------------------------------------------------------------
\* Properties
\* ------------------------------------------------------------------------

\* the last weight edit, and the item it addressed as it is now
LastEdit == trace[Len(trace)]

EditedItem(t) == ItemOf([mealId |-> t.mealId, itemId |-> t.itemId])

\* y = x * w2 / w1 for a finite w1 > 0, NaN when x or w2 is
Scaled(y, x, w2, w1) ==
  IF IsFin(x) /\ IsFin(w2)
  THEN IsFin(y) /\ y.n * x.d * w2.d * w1.n = x.n * w2.n * w1.d * y.d
  ELSE IsNaN(y)

\* C1: when the AI call of an extraction request fails, the step that ends
\* the request leaves every Daily Log of the store as it was and shows
\* exactly one alert, which carries the cause.
C1_FailedExtractionAppliesNothing ==
  [][(Len(pending') < Len(pending) /\ ParseThrows(outcome'))
       => /\ logs' = logs
          /\ alerts' = Append(alerts,
                         [prefix |-> AlertPrefix,
                          message |-> ParseErrorMessage(outcome')])]_vars

\* a request has failed on a store that holds an edited log
C1_Witness ==
  /\ Len(alerts) = 1
  /\ ParseThrows(outcome)
  /\ pending = <<>>
  /\ nEdits = 1
  /\ DOMAIN logs # {}

\* C2: a weight edit of a record of weight > 0 sets the weight to the new
\* weight and multiplies calories, protein, carbs, fat and addedOilCalories
\* by newWeight / oldWeight; the egg rescaled 50 -> 100 becomes
\* 100 g, 140 kcal, 12, 1.2, 10, 0.
C2_WeightEditScalesMacros ==
  trace # <<>> =>
    LET b == LastEdit.before
        w2 == LastEdit.value
        it == EditedItem(LastEdit)
    IN  Gt(b.weight, Zero) =>
          /\ it.weight = w2
          /\ \A f \in MacroFields : Scaled(it[f], b[f], w2, b.weight)
          /\ it.id = b.id /\ it.name = b.name
          /\ (b = FIXED_BREAKFAST_ITEMS[1] /\ w2 = Int2Num(100)) =>
               it = Ingredient("fixed-egg", "Boiled Egg", Int2Num(100),
                               Int2Num(140), Int2Num(12), Rat(12, 10),
                               Int2Num(10), Zero)

\* a record carrying added oil has just been rescaled from 50 g to 100 g
C2_Witness ==
  /\ trace # <<>>
  /\ LastEdit.before.weight = Int2Num(50)
  /\ LastEdit.before.addedOilCalories = Int2Num(45)
  /\ LastEdit.value = Int2Num(100)
  /\ EditedItem(LastEdit).addedOilCalories = Int2Num(90)

\* C3: a weight edit of a record of weight 0 changes the weight only; the
\* macro fields keep their values and no NaN or infinity appears in them.
C3_ZeroWeightKeepsMacros ==
  trace # <<>> =>
    LET b == LastEdit.before
        it == EditedItem(LastEdit)
    IN  NumEq(b.weight, Zero) =>
          /\ it = [b EXCEPT !.weight = LastEdit.value]
          /\ \A f \in MacroFields : IsFin(b[f]) => IsFin(it[f])

\* a record of weight 0 with 45 kcal has just been rescaled to 100 g
C3_Witness ==
  /\ trace # <<>>
  /\ LastEdit.before.weight = Zero
  /\ LastEdit.before.calories = Int2Num(45)
  /\ LastEdit.value = Int2Num(100)
  /\ EditedItem(LastEdit).calories = Int2Num(45)

\* the last two weight edits rescaled one record of weight w1 > 0 to w2 and
\* back to w1
RoundTrip ==
  /\ Len(trace) >= 2
  /\ LET t1 == trace[Len(trace) - 1]
         t2 == trace[Len(trace)]
     IN  /\ t1.mealId = t2.mealId /\ t1.itemId = t2.itemId
         /\ Gt(t1.before.weight, Zero)
         /\ t2.value = t1.before.weight

RoundTripRestores ==
  LET t1 == trace[Len(trace) - 1]
  IN  \A f \in MacroFields : EditedItem(LastEdit)[f] = t1.before[f]

\* C4 as claimed: a round trip through any non-negative weight w2 restores
\* the macro fields.
C4_RoundTripAnyWeight ==
  (RoundTrip /\ Ge(trace[Len(trace) - 1].value, Zero)) => RoundTripRestores

\* C4: a round trip through a weight w2 > 0 restores the macro fields (in
\* exact arithmetic, that is up to floating-point rounding).
C4_RoundTripPositiveWeight ==
  (RoundTrip /\ Gt(trace[Len(trace) - 1].value, Zero)) => RoundTripRestores

\* the egg has been rescaled 50 -> 100 -> 50
C4_Witness ==
  /\ RoundTrip
  /\ trace[Len(trace) - 1].before = FIXED_BREAKFAST_ITEMS[1]
  /\ trace[Len(trace) - 1].value = Int2Num(100)
  /\ EditedItem(LastEdit) = FIXED_BREAKFAST_ITEMS[1]

\* C5: every numeric field of every record of the store is a non-negative
\* number.
C5_AllFieldsNonNegative ==
  \A d \in DOMAIN logs :
    \A m \in 1..Len(logs[d].meals) :
      \A i \in 1..Len(logs[d].meals[m].items) :
        \A f \in NumericFields :
          LET x == logs[d].meals[m].items[i][f]
          IN  IsFin(x) /\ x.n >= 0

\* the records of a log, meal by meal
RECURSIVE Flatten(_, _)
Flatten(meals, m) ==
  IF m > Len(meals) THEN <<>> ELSE meals[m].items \o Flatten(meals, m + 1)

\* the sum of field f of the records, last record first
RECURSIVE SumField(_, _)
SumField(items, f) ==
  IF items = <<>> THEN Zero
  ELSE Add(items[Len(items)][f], SumField(SubSeq(items, 1, Len(items) - 1), f))

\* C6: the rendered totals are the sums, field by field, of all records of
\* all meals of the log, those of a meal flagged isSkipped included; the
\* default log totals 220 kcal, 14, 12.6, 13 and 0.
C6_TotalsAreSums ==
  LET all == Flatten(currentLog.meals, 1)
      t == mpView.total
  IN  /\ t.calories = SumField(all, "calories")
      /\ t.protein = SumField(all, "protein")
      /\ t.carbs = SumField(all, "carbs")
      /\ t.fat = SumField(all, "fat")
      /\ t.oil = SumField(all, "addedOilCalories")
      /\ currentLog = DefaultLog(selectedDate) =>
           t = [calories |-> Int2Num(220), protein |-> Int2Num(14),
                carbs |-> Rat(126, 10), fat |-> Int2Num(13), oil |-> Zero]

\* the egg deleted, the milk and the rice of a lunch flagged isSkipped are
\* counted
C6_Witness ==
  /\ currentLog.meals[1].items = <<FIXED_BREAKFAST_ITEMS[2]>>
  /\ currentLog.meals[2].isSkipped
  /\ currentLog.meals[2].items = <<StoredRice>>
  /\ Len(currentLog.meals[3].items) = 0
  /\ mpView.total.calories = Int2Num(280)

\* the totals and the targets are non-negative numbers
NonNegative(x) == IsFin(x) /\ x.n >= 0

TotalsNonNegative ==
  /\ NonNegative(mpView.total.calories) /\ NonNegative(mpView.total.protein)
  /\ NonNegative(mpView.total.carbs) /\ NonNegative(mpView.total.fat)

InRange0To100(x) == IsFin(x) /\ x.n >= 0 /\ x.n <= 100 * x.d

\* C7: for non-negative totals every display ratio is a number in 0..100.
C7_PercentInRange ==
  TotalsNonNegative =>
    /\ InRange0To100(mpView.pctCalories)
    /\ InRange0To100(mpView.pctProtein)
    /\ InRange0To100(mpView.pctCarbs)
    /\ InRange0To100(mpView.pctFat)

\* C8: the carbohydrate-energy ratio is 100 * 4 * carbs / calories when the
\* total calories are > 0 and 0 when they are 0; the on-target flag is set
\* exactly when the ratio is >= 50.
C8_CarbRatio ==
  LET t == mpView.total
      r == mpView.currentCarbRatio
  IN  /\ Gt(t.calories, Zero) /\ IsFin(t.carbs) =>
           /\ IsFin(r)
           /\ r.n * t.calories.n * t.carbs.d = 400 * t.carbs.n * t.calories.d * r.d
      /\ t.calories = Zero => r = Zero
      /\ mpView.isCarbRatioGood <=> (IsFin(r) /\ r.n >= 50 * r.d)

\* a log without calories is rendered with the ratio 0
C8_Witness ==
  /\ mpView.total.calories = Zero
  /\ Len(Flatten(currentLog.meals, 1)) = 0
  /\ mpView.currentCarbRatio = Zero
  /\ ~mpView.isCarbRatioGood

\* C9: the calorie warning is on exactly when total calories > target; at
\* total = target the clamped ratio is 100 and the warning is off, above the
\* target the clamped ratio is 100 and the warning is on.
C9_WarningBesideClampedRatio ==
  LET c == mpView.total.calories
      target == goals.calories
  IN  /\ mpView.overBudget <=> Gt(c, target)
      /\ NumEq(c, target) =>
           mpView.pctCalories = Int2Num(100) /\ ~mpView.overBudget
      /\ Gt(c, target) =>
           mpView.pctCalories = Int2Num(100) /\ mpView.overBudget

\* x = n / d rounded to the nearest integer t, halves upwards
RoundsTo(t, n, d) ==
  /\ IsFin(t) /\ t.d = 1
  /\ 2 * t.n * d - d <= 2 * n
  /\ 2 * n < 2 * t.n * d + d

\* C10: the gram targets are round(calories * carbsPercentage / 4) and
\* round(calories * fatPercentage / 9); the default goals give 186 g of
\* carbohydrate.
C10_DerivedTargets ==
  /\ RoundsTo(mpView.targetCarbs,
              goals.calories.n * goals.carbsPercentage.n,
              goals.calories.d * goals.carbsPercentage.d * 4)
  /\ RoundsTo(mpView.targetFat,
              goals.calories.n * goals.fatPercentage.n,
              goals.calories.d * goals.fatPercentage.d * 9)
  /\ goals = DEFAULT_GOALS => mpView.targetCarbs = Int2Num(186)

\* the component is rendered again with the default goals
C10_Witness ==
  /\ goals = DEFAULT_GOALS
  /\ selectedDate # Today
  /\ mpView.targetCarbs = Int2Num(186)
  /\ mpView.targetFat = Int2Num(38)

\* the slots a log of date must expose: one meal per slot of MEAL_TYPES,
\* in that order, with the id '<slot>-<date>'
FourSlots(log, date) ==
  /\ log.date = date
  /\ Len(log.meals) = 4
  /\ \A i \in 1..4 : log.meals[i].id = <<MEAL_TYPES[i], date>>

\* the content of a log nothing was added to, edited in or deleted from
Untouched(log) ==
  /\ log.meals[1].items = FIXED_BREAKFAST_ITEMS
  /\ \A i \in 2..4 : log.meals[i].items = <<>>

\* C11: on a store that started empty, every log getDailyLog returns and
\* every log held in the store has exactly the four slots breakfast,
\* lunch, dinner, snack with the ids '<slot>-<date>'; a date without a
\* stored log reads as the two fixed breakfast records and three empty
\* meals.
C11_FourSlotsPerLog ==
  /\ \A d \in DOMAIN logs : FourSlots(logs[d], d)
  /\ \A d \in Dates :
       /\ FourSlots(getDailyLog(logs, d), d)
       /\ d \notin DOMAIN logs => Untouched(getDailyLog(logs, d))

\* a late response has been stored for a date left meanwhile, and the
\* date shown has no stored log
C11_Witness ==
  /\ selectedDate \notin DOMAIN logs
  /\ \E d \in DOMAIN logs : Len(logs[d].meals[2].items) > 0
  /\ alerts = <<>>

\* C12: at any time at most one extraction request and at most one
\* recommendation request is outstanding: none can be started while one
\* of its kind has not returned.
C12_OneRequestOutstanding ==
  /\ Len(pending) <= 1
  /\ Len(pendingDecides) <= 1

\* the user has left the date or the meal slot a suspended call was
\* started for
Left(call) ==
  \/ selectedDate # call.currentLog.date
  \/ activeMealInput \notin {"null", call.mealId[1]}

\* C13: a response that arrives after the user has moved to another date
\* or another meal is ignored: the step in which the suspended call
\* returns changes no log of the store.
C13_LateResponseIgnored ==
  [][\A p \in 1..Len(pending) :
       (pending' = RemoveAt(pending, p) /\ Left(pending[p]))
         => logs' = logs]_vars

\* a response text that is empty or carries no 'items' field
NonConforming(out) ==
  \/ out.kind = "empty"
  \/ out.kind = "json" /\ ~out.hasItems

\* C14: an extraction response that is empty or lacks the fields of the
\* schema ends as a failure: the request that received it changes no log
\* and reports the failure.
C14_NonConformingResponseFails ==
  [][(Len(pending') < Len(pending) /\ NonConforming(outcome'))
       => (logs' = logs /\ Len(alerts') = Len(alerts) + 1)]_vars

\* C16: no recommendation request is started with an empty options list.
C16_OptionsNeverEmpty ==
  \A p \in 1..Len(pendingDecides) : pendingDecides[p].options # <<>>

\* the records of a log, meal after meal
Records(log) == Flatten(log.meals, 1)

\* C15: no two records of one Daily Log have the same id.
C15_IdsUniqueWithinLog ==
  ~crashed =>
    \A d \in DOMAIN logs :
      \A i, j \in 1..Len(Records(logs[d])) :
        i # j => Records(logs[d])[i].id # Records(logs[d])[j].id

\* the stored state cannot be read, is no JSON text, or is the JSON text
\* of something that is no mapping
Corrupt(st) == st.kind \in {"throws", "badjson", "null"}

\* C19: started on a corrupt stored state the App renders, and its store
\* is the empty mapping until the first mutation.
C19_CorruptStateDegrades ==
  Corrupt(stored) =>
    /\ ~crashed
    /\ (nEdits = 0 /\ nRequests = 0) => logs = EmptyStore

\* the text holds the token
Embeds(text, token) == \E i \in 1..Len(text) : text[i] = token

\* C17: whatever the AI call does, the step in which a report request
\* returns leaves generatingReport false and a non-empty reportContent,
\* which embeds the cause when the call failed.
C17_ReportAlwaysDisplayable ==
  [][\A p \in 1..Len(pendingReports) :
       pendingReports' = RemoveAt(pendingReports, p)
         => /\ ~generatingReport'
            /\ reportContent' # <<>>
            /\ outcome'.kind = "throws"
                 => \A i \in 1..Len(outcome'.message) :
                      Embeds(reportContent', outcome'.message[i])]_vars

\* a report request has failed and its failure text is shown
C17_Witness ==
  /\ view = "report"
  /\ pendingReports = <<>>
  /\ ~generatingReport
  /\ outcome.kind = "throws"
  /\ Embeds(reportContent, NetworkError)

\* the list a weekly request was started with
WeekOf(call) == [i \in 1..Len(call.logs) |-> call.logs[i].date]

\* C18: the list of logs a weekly report is started with has at most 7
\* entries, all of the store when it holds fewer than 7, each the stored
\* log of its date, in ascending date order, and no stored date left out
\* is later than one passed.
C18_WeeklyInputIsLastSeven ==
  [][(Len(pendingReports') > Len(pendingReports)
      /\ pendingReports'[Len(pendingReports')].type # "daily")
       => LET call == pendingReports'[Len(pendingReports')]
              week == WeekOf(call)
              passed == {week[i] : i \in 1..Len(week)}
          IN  /\ Len(week) <= 7
              /\ Len(week) = IF Cardinality(DOMAIN logs) < 7
                             THEN Cardinality(DOMAIN logs) ELSE 7
              /\ \A i \in 1..Len(week) :
                    week[i] \in DOMAIN logs /\ call.logs[i] = logs[week[i]]
              /\ \A i, j \in 1..Len(week) : i < j => week[i] < week[j]
              /\ \A d \in DOMAIN logs \ passed :
                    \A e \in passed : d < e]_vars

\* a weekly request is outstanding that was started on a store of more
\* than 7 logs
C18_Witness ==
  /\ Cardinality(DOMAIN logs) > 7
  /\ \E p \in 1..Len(pendingReports) :
       /\ pendingReports[p].type = "fat_loss"
       /\ Len(pendingReports[p].logs) = 7

\* C20: a step that changes the date shown leaves the store as it is, and
\* a date gets its entry in the store only in a step that edits, deletes
\* or sets a metric on that date while it is shown, or in which an add
\* food started on that date returns.
C20_ReadsAddNoEntry ==
  [][/\ selectedDate' # selectedDate => logs' = logs
     /\ \A d \in DOMAIN logs' \ DOMAIN logs :
          \/ nEdits' = nEdits + 1 /\ d = selectedDate
          \/ \E p \in 1..Len(pending) :
               /\ pending' = RemoveAt(pending, p)
               /\ pending[p].currentLog.date = d
               /\ alerts' = alerts]_vars

\* today has got its entry by an edit, and the date then moved to and
\* read has none
C20_Witness ==
  /\ nEdits = 1
  /\ DOMAIN logs = {Today}
  /\ selectedDate # Today
  /\ getDailyLog(logs, selectedDate) = DefaultLog(selectedDate)

\* the cooking analysis a response carries, the default when it has none
AnalysisOf(out) ==
  IF out.kind = "json" /\ out.analysis # "" THEN out.analysis
  ELSE DefaultAnalysis

\* the suspended call p returns with a result in this step
Applied(p) ==
  /\ p \in 1..Len(pending)
  /\ pending' = RemoveAt(pending, p)
  /\ alerts' = alerts

\* the note of meal m of date d in a store
NoteOf(store, d, m) == getDailyLog(store, d).meals[m].cookingMethodNote

StartsWith(items, prefix) ==
  /\ Len(items) >= Len(prefix)
  /\ SubSeq(items, 1, Len(prefix)) = prefix

\* C22: the step that applies an extraction response keeps what the
\* date's stored log holds at that moment: its metrics, and the records
\* of each of its meals as they are, none restored and none reverted.
C22_NoLostUpdate ==
  [][\A p \in 1..Len(pending) :
       Applied(p) =>
         LET d == pending[p].currentLog.date
             latest == getDailyLog(logs, d)
         IN  /\ logs'[d].metrics = latest.metrics
             /\ \A m \in 1..4 :
                  StartsWith(logs'[d].meals[m].items,
                             latest.meals[m].items)]_vars

\* the records a response carries
ReturnedBy(out) ==
  IF out.kind = "json" /\ out.hasItems THEN out.items ELSE <<>>

\* C23: the step that applies an extraction response changes the log of
\* the date the request was started on and no other; in that log the
\* meals other than the one passed stay as stored, and the meal passed
\* keeps its stored records, followed by the returned ones in order.
C23_ExtractionFrame ==
  [][\A p \in 1..Len(pending) :
       Applied(p) =>
         LET call == pending[p]
             d == call.currentLog.date
             latest == getDailyLog(logs, d)
             returned == ReturnedBy(outcome')
         IN  /\ DOMAIN logs' = DOMAIN logs \cup {d}
             /\ \A e \in DOMAIN logs \ {d} : logs'[e] = logs[e]
             /\ \A m \in 1..4 :
                  IF latest.meals[m].id # call.mealId
                  THEN logs'[d].meals[m] = latest.meals[m]
                  ELSE LET old == latest.meals[m].items
                           new == logs'[d].meals[m].items
                       IN  /\ Len(new) = Len(old) + Len(returned)
                           /\ StartsWith(new, old)
                           /\ \A i \in 1..Len(returned) :
                                new[Len(old) + i].name = returned[i].name]_vars

\* C24: generatingReport is true while a report request is outstanding,
\* and the response that leaves none outstanding is the one of the report
\* requested last, the kind reportTitle names.
C24_LatestReportShown ==
  [][/\ pendingReports' # <<>> => generatingReport'
     /\ \A p \in 1..Len(pendingReports) :
          (pendingReports' = RemoveAt(pendingReports, p)
           /\ pendingReports' = <<>>)
            => reportTitle' = ReportTitle(pendingReports[p].type)]_vars

\* the suspended handleDecide call p returns or throws in this step
Decided(p) ==
  /\ p \in 1..Len(pendingDecides)
  /\ pendingDecides' = RemoveAt(pendingDecides, p)

\* C25: an extraction request whose AI call returns or throws is followed
\* by isProcessing = false, and a recommendation request likewise by
\* loading = false: the returning step itself clears the flag of the
\* component that made the call; a recommendation call that throws leaves
\* the result of its component empty and sets no result anywhere.
C25_FlagsAreReset ==
  /\ (pending # <<>>) ~> ~isProcessing
  /\ loading ~> ~loading
  /\ [][/\ Len(pending') < Len(pending) => ~isProcessing'
        /\ \A p \in 1..Len(pendingDecides) :
             Decided(p) =>
               /\ pendingDecides[p].mounted => ~loading'
               /\ alerts' # alerts =>
                    IF pendingDecides[p].mounted THEN result' = NoResult
                    ELSE result' = result]_vars

\* an extraction and a recommendation have failed, and both flags are
\* false again with no result shown
C25_Witness ==
  /\ pending = <<>> /\ pendingDecides = <<>>
  /\ ~isProcessing /\ ~loading
  /\ result = NoResult
  /\ \E i, j \in 1..Len(alerts) :
       alerts[i].prefix = AlertPrefix /\ alerts[j] = DecideAlert
====
